---- MODULE Spec2Model ----
(***************************************************************************)
(* Model of the retrieval-augmented generation pipeline of                 *)
(* nfmoore/azure-openai-example-scenarios:                                 *)
(*   - src/src/rag/utilities.py            RetrievalAugmentedGenerationClient*)
(*   - src/src/orchestration/utilities.py  OrchestrationClient             *)
(*   - src/src/app/main.py, src/app/main.py  replace_references and the UI  *)
(* Text is a sequence of one-character strings, so that formatting,        *)
(* regular-expression matching and str.replace are computed, not assumed.  *)
(***************************************************************************)
EXTENDS Integers, Sequences, FiniteSets, TLC

VARIABLES
    app,                     \* the application run: "rag" (src/app/main.py with the RAG
                             \* client) or "orc" (src/src/app/main.py with OrchestrationClient)
    app_messages,            \* st.session_state.app_messages / messages: what the UI shows
    history,                 \* st.session_state.message_history / chat_history["messages"]
    is_running,              \* st.session_state.is_running
    pc,                      \* where the script run is
    ncalls,                  \* answer calls started so far
    question,                \* question / latest_user_input of the call
    search_query,            \* result of query reformulation
    search_query_embedding,  \* result of embedding
    search_documents,        \* "value" of the search response (orc: get_documents result)
    retrieved_documents,     \* result of retrieve_documents
    augmented_prompt,        \* augmented_prompt / updated_user_prompt
    response,                \* response / assistant_message
    updated_history,         \* the history the call returns
    history_in,              \* value of the history when the call began
    failed,                  \* stages of the call whose upstream request failed
    requests,                \* requests the call has sent, in order
    exc,                     \* exception that ended the script run, or "none"
    rw_impl,      \* which replace_references is applied: "ui_orc" or "ui_rag"
    rw_answer,    \* the answer text handed to replace_references
    rw_refs,      \* the reference list handed to replace_references
    rw_out1,      \* result of the first application
    rw_out2,      \* result of applying it again to rw_out1
    rw_pc,        \* "input", "once", "twice"
    cfg_loader,   \* who reads the system prompt configuration: "client" or "app"
    cfg_source,   \* what the configuration file holds
    cfg_messages, \* the two system messages read from it
    cfg_pc,       \* "start", "constructed", "loaded", "reformulated", "generated", "failed"
    cfg_exc,      \* exception raised while reading the configuration, or "none"
    cfg_requests, \* chat requests the constructed client has sent
    prov_client,  \* the provisioning client: "custom" or "ais"
    prov_assets,  \* the assets that exist in the search service
    prov_op,      \* the operation called last
    prov_log,     \* the requests that operation sent, in order
    prov_result,  \* how that operation ended
    prov_nops     \* operations called so far

rw_vars == <<rw_impl, rw_answer, rw_refs, rw_out1, rw_out2, rw_pc>>

cfg_vars == <<cfg_loader, cfg_source, cfg_messages, cfg_pc, cfg_exc, cfg_requests>>

prov_vars == <<prov_client, prov_assets, prov_op, prov_log, prov_result, prov_nops>>

\* everything outside the chat application
side_vars == <<rw_vars, cfg_vars, prov_vars>>

call_vars ==
    <<question, search_query, search_query_embedding, search_documents,
      retrieved_documents, augmented_prompt, response, updated_history>>

app_vars ==
    <<app, app_messages, history, is_running, pc, ncalls, call_vars, history_in,
      failed, requests, exc>>

vars == <<app_vars, rw_vars, cfg_vars, prov_vars>>

-----------------------------------------------------------------------------
(* Bounds of the model *)

\* number of segments an answer text is assembled from
MaxSegs == 3
\* number of references in a reference list
MaxRefs == 2
\* number of answer calls started in one session
MaxCalls == 2
\* number of provisioning operations called on one client
MaxOps == 2

-----------------------------------------------------------------------------
(* Text helpers: Python str operations on character sequences *)

\* Python objects that are not text: None, False
PyNone == <<"<None>">>
PyFalse == <<"<False>">>

\* None where a list of dicts is expected (dict.get of an absent key)
PyNoneList == <<[py |-> "None"]>>

\* truth value of a list: None and [] are falsy
TruthyList(l) == l # <<>> /\ l # PyNoneList

\* truth value of a str or None: None and "" are falsy
TruthyText(s) == s # <<>> /\ s # PyNone

IsText(s) == s # PyNone /\ s # PyFalse

\* str(None), as an f-string renders an absent value
StrNone == <<"N", "o", "n", "e">>

\* s[i:i+len(p)] == p
IsAt(s, i, p) ==
    /\ i >= 1
    /\ i + Len(p) - 1 <= Len(s)
    /\ SubSeq(s, i, i + Len(p) - 1) = p

\* p occurs in s
Contains(s, p) == \E i \in 1..Len(s) : IsAt(s, i, p)

RECURSIVE ReplaceFrom(_, _, _, _)
ReplaceFrom(s, i, old, new) ==
    IF i > Len(s) THEN <<>>
    ELSE IF IsAt(s, i, old) THEN new \o ReplaceFrom(s, i + Len(old), old, new)
    ELSE <<s[i]>> \o ReplaceFrom(s, i + 1, old, new)

\* str.replace(old, new): every non-overlapping occurrence, left to right
StrReplace(s, old, new) == ReplaceFrom(s, 1, old, new)

RECURSIVE Concat(_)
Concat(ss) == IF ss = <<>> THEN <<>> ELSE Head(ss) \o Concat(Tail(ss))

\* the elements of a sequence
Range(seq) == { seq[n] : n \in 1..Len(seq) }

Max(S) == CHOOSE x \in S : \A y \in S : y <= x
Min(S) == CHOOSE x \in S : \A y \in S : x <= y

-----------------------------------------------------------------------------
(* The regular expression \[([^\]]*.md)\] of replace_references *)

\* positions j where "." may sit for a match that starts with "[" at i:
\* s[i+1..j-1] is [^\]]*, s[j] is "." (any character but a newline),
\* then the literals m, d, ]
RegexDots(s, i) ==
    { j \in (i + 1)..(Len(s) - 3) :
        /\ \A k \in (i + 1)..(j - 1) : s[k] # "]"
        /\ s[j] # "\n"
        /\ s[j + 1] = "m"
        /\ s[j + 2] = "d"
        /\ s[j + 3] = "]" }

RegexMatchesAt(s, i) == i \in 1..Len(s) /\ s[i] = "[" /\ RegexDots(s, i) # {}

\* the star is greedy: the longest [^\]]* that still lets the rest match
RegexEnd(s, i) == Max(RegexDots(s, i)) + 3

\* group 1 of the match at i
RegexGroup(s, i) == SubSeq(s, i + 1, RegexEnd(s, i) - 1)

\* start positions of the non-overlapping matches, scanning from pos
RECURSIVE MatchStarts(_, _)
MatchStarts(s, pos) ==
    LET starts == { i \in pos..Len(s) : RegexMatchesAt(s, i) }
    IN  IF starts = {} THEN <<>>
        ELSE LET i == Min(starts)
             IN  <<i>> \o MatchStarts(s, RegexEnd(s, i) + 1)

\* re.findall(regex, text): group 1 of every match, in order
ReFindall(s) ==
    LET st == MatchStarts(s, 1)
    IN  [n \in 1..Len(st) |-> RegexGroup(s, st[n])]

\* The backquote character (a TLA+ string cannot hold it; "'" stands for it)
BQ == "'"

\* two backquotes, as in the replacement templates
Tick2 == <<BQ, BQ>>

\* re.sub(regex, r"<BQ><BQ>\1<BQ><BQ>", text)
RECURSIVE ReSubFrom(_, _)
ReSubFrom(s, pos) ==
    IF pos > Len(s) THEN <<>>
    ELSE IF RegexMatchesAt(s, pos)
         THEN Tick2 \o RegexGroup(s, pos) \o Tick2 \o ReSubFrom(s, RegexEnd(s, pos) + 1)
         ELSE <<s[pos]>> \o ReSubFrom(s, pos + 1)

ReSub(s) == ReSubFrom(s, 1)

\* "[" + reference + "]"
Marker(reference) == <<"[">> \o reference \o <<"]">>

\* f"[<BQ><BQ>{reference}<BQ><BQ>]({target})"
Link(reference, target) ==
    <<"[">> \o Tick2 \o reference \o Tick2 \o <<"]", "(">> \o target \o <<")">>

\* f"<BQ><BQ>{reference}<BQ><BQ>"
Label(reference) == Tick2 \o reference \o Tick2

-----------------------------------------------------------------------------
(* replace_references, src/src/app/main.py (the orchestration app) *)

\* one pass of the for loop body on the ORIGINAL text: the exception it raises,
\* or the text it assigns to modified_text
OrcLoopBody(text, sources, reference) ==
    IF \E n \in 1..Len(sources) : "title" \notin DOMAIN sources[n]
    THEN [exc |-> "KeyError", value |-> text]
    ELSE LET hits == { n \in 1..Len(sources) : sources[n].title = reference }
         IN  IF hits = {}
             THEN [exc |-> "IndexError", value |-> text]
             ELSE LET first == sources[Min(hits)]
                      source == IF "path" \in DOMAIN first THEN first.path ELSE PyNone
                  IN  IF TruthyText(source)
                      THEN [exc |-> "none",
                            value |-> StrReplace(text, Marker(reference),
                                                 Link(reference, source))]
                      ELSE [exc |-> "none",
                            value |-> StrReplace(text, Marker(reference),
                                                 Label(reference))]

\* the try block: [exc, value] where exc is the exception raised inside it
OrcTryBlock(text, sources) ==
    IF ~IsText(text)
    THEN [exc |-> "TypeError", value |-> text]
    ELSE IF TruthyList(sources)
    THEN LET references == ReFindall(text)
             body == [n \in 1..Len(references) |->
                         OrcLoopBody(text, sources, references[n])]
             raising == { n \in 1..Len(references) : body[n].exc # "none" }
         IN  IF raising # {}
             THEN body[Min(raising)]
             ELSE IF references = <<>>
             THEN [exc |-> "UnboundLocalError", value |-> text]
             ELSE body[Len(references)]
    ELSE [exc |-> "none", value |-> ReSub(text)]

\* replace_references(text, sources): except Exception returns text unchanged
ReplaceReferencesOrc(text, sources) ==
    LET r == OrcTryBlock(text, sources)
    IN  IF r.exc # "none" THEN [exc |-> "none", value |-> text] ELSE r

-----------------------------------------------------------------------------
(* replace_references, src/app/main.py (the RAG app) *)

\* {item["title"]: item["path"] for item in references}.get(reference):
\* a later item with the same title overwrites an earlier one
RagLookupGet(references, reference) ==
    LET hits == { n \in 1..Len(references) : references[n].title = reference }
    IN  IF hits = {} THEN StrNone ELSE references[Max(hits)].path

RECURSIVE RagReplaceLoop(_, _, _)
RagReplaceLoop(answer, found, references) ==
    IF found = <<>> THEN answer
    ELSE RagReplaceLoop(
             StrReplace(answer, Marker(Head(found)),
                        Link(Head(found), RagLookupGet(references, Head(found)))),
             Tail(found), references)

\* replace_references(answer, references): no exception handler
ReplaceReferencesRag(answer, references) ==
    IF /\ TruthyList(references)
       /\ \E n \in 1..Len(references) :
              {"title", "path"} \ DOMAIN references[n] # {}
    THEN [exc |-> "KeyError", value |-> answer]
    ELSE IF ~IsText(answer)
    THEN [exc |-> "TypeError", value |-> answer]
    ELSE [exc |-> "none",
          value |-> RagReplaceLoop(answer, ReFindall(answer),
                                   IF TruthyList(references) THEN references ELSE <<>>)]

-----------------------------------------------------------------------------
(* Prompt construction *)

UpperCase ==
    <<"A", "B", "C", "D", "E", "F", "G", "H", "I", "J", "K", "L", "M",
      "N", "O", "P", "Q", "R", "S", "T", "U", "V", "W", "X", "Y", "Z">>
LowerCase ==
    <<"a", "b", "c", "d", "e", "f", "g", "h", "i", "j", "k", "l", "m",
      "n", "o", "p", "q", "r", "s", "t", "u", "v", "w", "x", "y", "z">>

\* str.lower() on one character
LowerChar(c) ==
    IF \E i \in 1..Len(UpperCase) : UpperCase[i] = c
    THEN LowerCase[CHOOSE i \in 1..Len(UpperCase) : UpperCase[i] = c]
    ELSE c

\* string.punctuation
Punctuation ==
    { "!", "\"", "#", "$", "%", "&", "'", "(", ")", "*", "+", ",", "-", ".", "/",
      ":", ";", "<", "=", ">", "?", "@", "[", "\\", "]", "^", "_", BQ, "{", "|",
      "}", "~" }

\* the characters str.split() splits on
Whitespace == { " ", "\n", "\t", "\r" }

\* stopwords.words("english"): the words of that list the modelled chunks can hold
StopWords ==
    { <<"t", "h", "e">>, <<"b", "e">>, <<"i", "s">>, <<"a">>, <<"o", "f">> }

\* text.lower().translate(str.maketrans("", "", string.punctuation))
LowerNoPunctuation(s) ==
    LET low == [i \in 1..Len(s) |-> LowerChar(s[i])]
        NotPunct(c) == c \notin Punctuation
    IN  SelectSeq(low, NotPunct)

\* str.split(): the maximal runs of non-whitespace characters, in order
RECURSIVE SplitFrom(_, _, _)
SplitFrom(s, i, word) ==
    IF i > Len(s) THEN (IF word = <<>> THEN <<>> ELSE <<word>>)
    ELSE IF s[i] \in Whitespace
         THEN (IF word = <<>> THEN <<>> ELSE <<word>>) \o SplitFrom(s, i + 1, <<>>)
         ELSE SplitFrom(s, i + 1, Append(word, s[i]))

StrSplit(s) == SplitFrom(s, 1, <<>>)

\* " ".join(words)
RECURSIVE JoinSpace(_)
JoinSpace(words) ==
    IF words = <<>> THEN <<>>
    ELSE IF Len(words) = 1 THEN Head(words)
    ELSE Head(words) \o <<" ">> \o JoinSpace(Tail(words))

\* preprocess_text of augment_prompt
preprocess_text(text) ==
    LET words == StrSplit(LowerNoPunctuation(text))
        NotStop(w) == w \notin StopWords
    IN  JoinSpace(SelectSeq(words, NotStop))

DocFields == {"title", "path", "chunk"}

HasAllFields(doc) == DocFields \subseteq DOMAIN doc

SourcesHeader == <<"\n", "S", "o", "u", "r", "c", "e", "s", ":", "\n">>

\* f"{doc['title']} :: {doc['path']} :: {preprocess_text(doc['chunk'])} ||\n"
RagSourceRecord(doc) ==
    doc.title \o <<" ", ":", ":", " ">> \o doc.path \o <<" ", ":", ":", " ">>
        \o preprocess_text(doc.chunk) \o <<" ", "|", "|", "\n">>

\* augment_prompt with the sources joined in reverse order
augment_prompt_reversed(q, documents) ==
    LET docs == [n \in 1..Len(documents) |-> documents[Len(documents) + 1 - n]]
    IN  q \o SourcesHeader
            \o Concat([n \in 1..Len(docs) |-> RagSourceRecord(docs[n])])

\* augment_prompt writing a placeholder line when there is no document
augment_prompt_placeholder(q, documents) ==
    IF documents = <<>> THEN q \o SourcesHeader \o <<"-", "\n">>
    ELSE q \o SourcesHeader
            \o Concat([n \in 1..Len(documents) |-> RagSourceRecord(documents[n])])

\* augment_prompt(question, retrieved_documents)
augment_prompt(q, documents) ==
    LET docs == documents
    IN  q \o SourcesHeader
            \o Concat([n \in 1..Len(docs) |-> RagSourceRecord(docs[n])])

\* doc["chunk"].replace("\n", " ").replace("*", "").replace("#", "")
OrcCleanChunk(chunk) ==
    StrReplace(StrReplace(StrReplace(chunk, <<"\n">>, <<" ">>), <<"*">>, <<>>),
               <<"#">>, <<>>)

\* f"{doc['title']}:{doc['path']}:{chunk}\n"
OrcSourceRecord(doc) ==
    doc.title \o <<":">> \o doc.path \o <<":">> \o OrcCleanChunk(doc.chunk) \o <<"\n">>

\* generate_user_prompt(user_input, search_results)
generate_user_prompt(user_input, search_results) ==
    LET docs == search_results
    IN  user_input \o <<"\n">> \o SourcesHeader
            \o Concat([n \in 1..Len(docs) |-> OrcSourceRecord(docs[n])])

\* {k: v for k, v in d.items() if k in ("title", "path")}
TitlePathOf(d) == [k \in DOMAIN d \cap {"title", "path"} |-> d[k]]

\* the references with a document that occurs again referenced once only
ProjectReferencesOnce(documents) ==
    LET firsts == { n \in 1..Len(documents) :
                      \A m \in 1..(n - 1) : documents[m] # documents[n] }
        IsFirst(n) == n \in firsts
        kept == SelectSeq([n \in 1..Len(documents) |-> n], IsFirst)
    IN  [k \in 1..Len(kept) |-> TitlePathOf(documents[kept[k]])]

\* references of the retrieved documents, one per document, in order
ProjectReferences(documents) ==
    [n \in 1..Len(documents) |-> TitlePathOf(documents[n])]

\* the documents returned by retrieve_documents for the response's "value"
FilterSearchDocuments(value) ==
    [n \in 1..Len(value) |->
        [title |-> value[n].title, path |-> value[n].path, chunk |-> value[n].chunk]]

UserTurn(content, references) ==
    [role |-> "user", content |-> content, references |-> references]

\* the answer stored as one more user turn
AnswerAsUserTurn(content) == [role |-> "user", content |-> content]

AssistantTurn(content) == [role |-> "assistant", content |-> content]

\* update_message_history with the references left off the user turn
update_message_history_no_references(message_history, prompt, answer, documents) ==
    message_history
        \o << [role |-> "user", content |-> prompt], AssistantTurn(answer) >>

\* update_message_history(message_history, augmented_prompt, response,
\* retrieved_documents)
update_message_history(message_history, prompt, answer, documents) ==
    message_history
        \o << UserTurn(prompt, ProjectReferences(documents)),
              AssistantTurn(answer) >>

\* the turns passed on as they are, references included
FilterNothing(message_history) == message_history

\* role and content of every turn, references stripped
FilterRoleContent(message_history) ==
    [n \in 1..Len(message_history) |->
        [role |-> message_history[n].role, content |-> message_history[n].content]]

-----------------------------------------------------------------------------
(* Inputs of replace_references *)

SeqsUpTo(S, n) == UNION { [1..k -> S] : k \in 0..n }

\* titles and paths of the references
TitleA == <<"a", ".", "m", "d">>
TitleB == <<"b", ".", "m", "d">>
Path1 == <<"/", "1">>
Path2 == <<"/", "2">>
Path3 == <<"/", "3">>

\* two references share the title a.md
RefPool ==
    { [title |-> TitleA, path |-> Path1],
      [title |-> TitleA, path |-> Path2],
      [title |-> TitleB, path |-> Path3] }

RefLists == SeqsUpTo(RefPool, MaxRefs) \cup {PyNoneList}

\* pieces of an answer: plain text, citation markers, other bracketed tokens
Segs ==
    { <<"x", " ">>,
      Marker(TitleA),
      Marker(TitleB),
      <<"[", "c", "m", "d", "]">>,
      <<"[", "a", ".", "t", "x", "t", "]">> }

Answers == { Concat(ss) : ss \in SeqsUpTo(Segs, MaxSegs) } \cup {PyFalse}

RwImpls == {"ui_orc", "ui_rag"}

RwApply(impl, text, refs) ==
    IF impl = "ui_orc" THEN ReplaceReferencesOrc(text, refs)
    ELSE ReplaceReferencesRag(text, refs)

NoResult == [exc |-> "none", value |-> <<>>]

-----------------------------------------------------------------------------
(* What the user and the three services can supply *)

\* the prompts a user submits
Questions == { <<"Q", "?">> }

\* search queries the chat model returns for a question
Queries == { <<"q", "1">>, <<"q", "2">> }

\* embedding vectors the embedding model returns (components as text)
Embeddings == { <<"0.1", "0.9">>, <<"0.5", "0.5">> }

Chunk1 == <<"T", "h", "e", " ", "O", "k", "!">>
Chunk2 == <<"b", "e", "\n", "#", "1">>

Doc1 == [title |-> TitleA, path |-> Path1, chunk |-> Chunk1]
Doc2 == [title |-> TitleB, path |-> Path3, chunk |-> Chunk2]
\* a document of the index that has no chunk
Doc3 == [title |-> TitleA, path |-> Path2]

\* "value" of a search response
SearchResponses ==
    { <<>>, <<Doc1, Doc2>>, <<Doc2, Doc1>>, <<Doc1, Doc1>>, <<Doc1, Doc3>> }

\* answers the chat model returns
GenAnswers ==
    { <<"x", " ">> \o Marker(TitleA),
      Marker(TitleA) \o Marker(TitleB) }

\* how a request ends: a 2xx response with the expected body; a
\* requests.exceptions.RequestException (connection error, timeout, non-2xx
\* status); a 2xx response whose body lacks the expected keys (KeyError)
Outcomes == {"ok", "request_error", "malformed"}

ExceptionOf(outcome) ==
    IF outcome = "request_error" THEN "RequestException" ELSE "KeyError"

\* the two system messages
SearchQuerySystemMessage == <<"S", "Q">>
ChatResponseSystemMessage == <<"S", "C">>

\* {"role": "assistant", "content": "How may I assist you today?"}
Greeting == [role |-> "assistant", content |-> <<"H", "i">>]

\* get_documents returned False
PyFalseList == <<[py |-> "False"]>>

Last(seq) == seq[Len(seq)]
Front(seq) == SubSeq(seq, 1, Len(seq) - 1)

ChatRequest(messages) == [endpoint |-> "chat", messages |-> messages]
EmbeddingRequest(input) == [endpoint |-> "embedding", input |-> input]
\* "k": 50 of the vector query
VectorK == 50

\* a search request that keeps the first component of the vector only
SearchRequestClamped(search, vector, select) ==
    [endpoint |-> "search", search |-> search, select |-> select,
     queryType |-> "semantic", captions |-> "extractive", answers |-> "extractive",
     top |-> "5", k |-> VectorK, fields |-> "vector", vector |-> SubSeq(vector, 1, 1)]

SearchRequest(search, vector, select) ==
    [endpoint |-> "search", search |-> search, select |-> select,
     queryType |-> "semantic", captions |-> "extractive", answers |-> "extractive",
     top |-> "5", k |-> VectorK, fields |-> "vector", vector |-> vector]

SelectedFields == "title,path,chunk"

NoText == <<>>

CallVarsCleared ==
    /\ question = NoText
    /\ search_query = NoText
    /\ search_query_embedding = <<>>
    /\ search_documents = <<>>
    /\ retrieved_documents = <<>>
    /\ augmented_prompt = NoText
    /\ response = NoText
    /\ updated_history = <<>>

RwQuiet ==
    /\ rw_impl = "ui_orc"
    /\ rw_answer = <<>>
    /\ rw_refs = <<>>
    /\ rw_out1 = NoResult
    /\ rw_out2 = NoResult
    /\ rw_pc = "off"

\* no configuration is being read
CfgQuiet ==
    /\ cfg_loader = "client"
    /\ cfg_source = "off"
    /\ cfg_messages = [query |-> PyNone, chat |-> PyNone]
    /\ cfg_pc = "off"
    /\ cfg_exc = "none"
    /\ cfg_requests = <<>>

\* no provisioning is going on
ProvQuiet ==
    /\ prov_client = "custom"
    /\ prov_assets = {}
    /\ prov_op = [name |-> "none"]
    /\ prov_log = <<>>
    /\ prov_result = "none"
    /\ prov_nops = 0

AppQuiet ==
    /\ app = "none"
    /\ app_messages = <<Greeting>>
    /\ history = <<>>
    /\ is_running = FALSE
    /\ pc = "off"
    /\ ncalls = 0
    /\ CallVarsCleared
    /\ history_in = <<>>
    /\ failed = {}
    /\ requests = <<>>
    /\ exc = "none"

-----------------------------------------------------------------------------
(* The chat UI: main() of src/app/main.py and of src/src/app/main.py *)

Init ==
    /\ app \in {"rag", "orc"}
    /\ app_messages = <<Greeting>>
    /\ history = <<>>
    /\ is_running = FALSE
    /\ pc = "idle"
    /\ ncalls = 0
    /\ CallVarsCleared
    /\ history_in = <<>>
    /\ failed = {}
    /\ requests = <<>>
    /\ exc = "none"
    /\ RwQuiet
    /\ CfgQuiet
    /\ ProvQuiet

\* st.chat_input returns a prompt: the user message is appended (the
\* orchestration app also appends it to chat_history), is_running is set and
\* the script reruns
Submit ==
    /\ pc = "idle"
    /\ ~is_running
    /\ ncalls < MaxCalls
    /\ \E prompt \in Questions :
          LET user_message == [role |-> "user", content |-> prompt]
          IN  /\ app_messages' = Append(app_messages, user_message)
              /\ history' = IF app = "orc" THEN Append(history, user_message)
                            ELSE history
    /\ is_running' = TRUE
    /\ pc' = "rerun"
    /\ UNCHANGED <<app, ncalls, call_vars, history_in, failed, requests, exc, side_vars>>

\* the user reruns the script after a run that ended with an uncaught exception
UserRerun ==
    /\ pc = "crashed"
    /\ ncalls < MaxCalls
    /\ pc' = "rerun"
    /\ UNCHANGED <<app, app_messages, history, is_running, ncalls, call_vars,
                   history_in, failed, requests, exc, side_vars>>

\* an uncaught exception ends the script run
Crash(stage, e) ==
    /\ pc' = "crashed"
    /\ exc' = e
    /\ failed' = IF stage = "none" THEN failed ELSE failed \cup {stage}

\* "if st.session_state.messages[-1]["role"] != "assistant"": the answer call begins
CallBegins(q) ==
    /\ pc = "rerun"
    /\ Last(app_messages).role # "assistant"
    /\ question' = q
    /\ search_query' = NoText
    /\ search_query_embedding' = <<>>
    /\ search_documents' = <<>>
    /\ retrieved_documents' = <<>>
    /\ augmented_prompt' = NoText
    /\ response' = NoText
    /\ updated_history' = <<>>
    /\ history_in' = history
    /\ failed' = {}
    /\ requests' = <<>>
    /\ exc' = "none"
    /\ ncalls' = ncalls + 1
    /\ pc' = "reformulating"
    /\ UNCHANGED <<app, app_messages, history, is_running, side_vars>>

-----------------------------------------------------------------------------
(* RetrievalAugmentedGenerationClient.get_answer, called by get_answer of     *)
(* src/app/main.py. No stage catches an exception: any failure ends the run. *)

RagStart ==
    /\ app = "rag"
    /\ CallBegins(Last(app_messages).content)

\* retrieve_documents, "Generate search query"
RagReformulate ==
    /\ app = "rag"
    /\ pc = "reformulating"
    /\ requests' = Append(requests,
           ChatRequest(<< [role |-> "system", content |-> SearchQuerySystemMessage],
                          [role |-> "user", content |-> question] >>))
    /\ \E outcome \in Outcomes :
          IF outcome = "ok"
          THEN /\ \E q \in Queries : search_query' = q
               /\ pc' = "embedding"
               /\ UNCHANGED <<failed, exc>>
          ELSE /\ Crash("reformulating", ExceptionOf(outcome))
               /\ UNCHANGED search_query
    /\ UNCHANGED <<app, app_messages, history, is_running, ncalls, question,
                   search_query_embedding, search_documents, retrieved_documents,
                   augmented_prompt, response, updated_history, history_in, side_vars>>

\* the embedding step sending its request once more after a first failure
RagEmbedRetries ==
    /\ app = "rag"
    /\ pc = "embedding"
    /\ requests' = Append(requests, EmbeddingRequest(search_query))
    /\ \E outcome \in Outcomes :
          IF outcome = "ok"
          THEN /\ \E e \in Embeddings : search_query_embedding' = e
               /\ pc' = "retrieving"
               /\ UNCHANGED <<failed, exc>>
          ELSE IF "embedding" \notin failed
          THEN /\ failed' = failed \cup {"embedding"}
               /\ UNCHANGED <<pc, exc, search_query_embedding>>
          ELSE /\ Crash("embedding", ExceptionOf(outcome))
               /\ UNCHANGED search_query_embedding
    /\ UNCHANGED <<app, app_messages, history, is_running, ncalls, question,
                   search_query, search_documents, retrieved_documents,
                   augmented_prompt, response, updated_history, history_in, side_vars>>

\* the embedding step going on to the search after a failed request
RagEmbedGoesOn ==
    /\ app = "rag"
    /\ pc = "embedding"
    /\ requests' = Append(requests, EmbeddingRequest(search_query))
    /\ \E outcome \in Outcomes :
          /\ IF outcome = "ok"
             THEN /\ \E e \in Embeddings : search_query_embedding' = e
                  /\ UNCHANGED failed
             ELSE /\ search_query_embedding' = PyNone
                  /\ failed' = failed \cup {"embedding"}
          /\ pc' = "retrieving"
          /\ UNCHANGED exc
    /\ UNCHANGED <<app, app_messages, history, is_running, ncalls, question,
                   search_query, search_documents, retrieved_documents,
                   augmented_prompt, response, updated_history, history_in, side_vars>>

\* retrieve_documents, "Generate vector embedding for search query"
RagEmbed ==
    /\ app = "rag"
    /\ pc = "embedding"
    /\ requests' = Append(requests, EmbeddingRequest(search_query))
    /\ \E outcome \in Outcomes :
          IF outcome = "ok"
          THEN /\ \E e \in Embeddings : search_query_embedding' = e
               /\ pc' = "retrieving"
               /\ UNCHANGED <<failed, exc>>
          ELSE /\ Crash("embedding", ExceptionOf(outcome))
               /\ UNCHANGED search_query_embedding
    /\ UNCHANGED <<app, app_messages, history, is_running, ncalls, question,
                   search_query, search_documents, retrieved_documents,
                   augmented_prompt, response, updated_history, history_in, side_vars>>

\* retrieve_documents, "Retrieve documents from Azure AI Search" and "Filter
\* search documents": a document without title, path or chunk raises KeyError
RagSearch ==
    /\ app = "rag"
    /\ pc = "retrieving"
    /\ requests' = Append(requests,
           SearchRequest(search_query, search_query_embedding, SelectedFields))
    /\ \E outcome \in Outcomes :
          IF outcome = "ok"
          THEN \E value \in SearchResponses :
                  /\ search_documents' = value
                  /\ IF \A n \in 1..Len(value) : HasAllFields(value[n])
                     THEN /\ retrieved_documents' = FilterSearchDocuments(value)
                          /\ pc' = "augmenting"
                          /\ UNCHANGED <<failed, exc>>
                     ELSE /\ Crash("none", "KeyError")
                          /\ UNCHANGED retrieved_documents
          ELSE /\ Crash("retrieving", ExceptionOf(outcome))
               /\ UNCHANGED <<search_documents, retrieved_documents>>
    /\ UNCHANGED <<app, app_messages, history, is_running, ncalls, question,
                   search_query, search_query_embedding, augmented_prompt, response,
                   updated_history, history_in, side_vars>>

\* get_answer, "Augment prompt"
RagAugment ==
    /\ app = "rag"
    /\ pc = "augmenting"
    /\ augmented_prompt' = augment_prompt(question, retrieved_documents)
    /\ pc' = "generating"
    /\ UNCHANGED <<app, app_messages, history, is_running, ncalls, question,
                   search_query, search_query_embedding, search_documents,
                   retrieved_documents, response, updated_history, history_in,
                   failed, requests, exc, side_vars>>

\* generate_response(augmented_prompt, message_history)
RagGenerate ==
    /\ app = "rag"
    /\ pc = "generating"
    /\ requests' = Append(requests,
           ChatRequest(<<[role |-> "system", content |-> ChatResponseSystemMessage]>>
                       \o FilterRoleContent(history)
                       \o <<[role |-> "user", content |-> augmented_prompt]>>))
    /\ \E outcome \in Outcomes :
          IF outcome = "ok"
          THEN /\ \E a \in GenAnswers : response' = a
               /\ pc' = "updating"
               /\ UNCHANGED <<failed, exc>>
          ELSE /\ Crash("generating", ExceptionOf(outcome))
               /\ UNCHANGED response
    /\ UNCHANGED <<app, app_messages, history, is_running, ncalls, question,
                   search_query, search_query_embedding, search_documents,
                   retrieved_documents, augmented_prompt, updated_history,
                   history_in, side_vars>>

\* get_answer, "Update message history": the new list is returned
RagUpdateHistory ==
    /\ app = "rag"
    /\ pc = "updating"
    /\ updated_history' = update_message_history(history, augmented_prompt, response,
                                                 retrieved_documents)
    /\ pc' = "returned"
    /\ UNCHANGED <<app, app_messages, history, is_running, ncalls, question,
                   search_query, search_query_embedding, search_documents,
                   retrieved_documents, augmented_prompt, response, history_in,
                   failed, requests, exc, side_vars>>

\* get_answer of src/app/main.py after the client call, then main(): the
\* returned history is stored, the references are read from
\* message_history[-1]["context"]["references"], the answer is formatted,
\* shown and appended, and is_running is cleared
RagDisplay ==
    /\ app = "rag"
    /\ pc = "returned"
    /\ history' = updated_history
    /\ LET last == Last(updated_history)
       IN  IF "context" \notin DOMAIN last
           THEN /\ Crash("none", "KeyError")
                /\ UNCHANGED <<app_messages, is_running>>
           ELSE LET formatted ==
                        ReplaceReferencesRag(last.content, last.context.references)
                IN  IF formatted.exc # "none"
                    THEN /\ Crash("none", formatted.exc)
                         /\ UNCHANGED <<app_messages, is_running>>
                    ELSE /\ app_messages' = Append(app_messages,
                                 [role |-> "assistant", content |-> formatted.value])
                         /\ is_running' = FALSE
                         /\ pc' = "idle"
                         /\ UNCHANGED <<failed, exc>>
    /\ UNCHANGED <<app, ncalls, call_vars, history_in, requests, side_vars>>

-----------------------------------------------------------------------------
(* OrchestrationClient.generate_chat_response, called by create_completion of *)
(* src/src/app/main.py. Each stage catches RequestException and returns None *)
(* or False; any other exception ends the run.                               *)

\* latest_user_input = message_history["messages"][-1]["content"]
OrcStart ==
    /\ app = "orc"
    /\ history # <<>>
    /\ CallBegins(Last(history).content)

\* generate_search_query(latest_user_input)
OrcReformulate ==
    /\ app = "orc"
    /\ pc = "reformulating"
    /\ requests' = Append(requests,
           ChatRequest(<< [role |-> "system", content |-> SearchQuerySystemMessage],
                          [role |-> "user", content |-> question] >>))
    /\ \E outcome \in Outcomes :
          CASE outcome = "ok" ->
                  /\ \E q \in Queries : search_query' = q
                  /\ pc' = "embedding"
                  /\ UNCHANGED <<failed, exc>>
            [] outcome = "request_error" ->
                  /\ search_query' = PyNone
                  /\ failed' = failed \cup {"reformulating"}
                  /\ pc' = "embedding"
                  /\ UNCHANGED exc
            [] outcome = "malformed" ->
                  /\ Crash("reformulating", ExceptionOf(outcome))
                  /\ UNCHANGED search_query
    /\ UNCHANGED <<app, app_messages, history, is_running, ncalls, question,
                   search_query_embedding, search_documents, retrieved_documents,
                   augmented_prompt, response, updated_history, history_in, side_vars>>

\* get_embedding(search_query)
OrcEmbed ==
    /\ app = "orc"
    /\ pc = "embedding"
    /\ requests' = Append(requests, EmbeddingRequest(search_query))
    /\ \E outcome \in Outcomes :
          CASE outcome = "ok" ->
                  /\ \E e \in Embeddings : search_query_embedding' = e
                  /\ pc' = "retrieving"
                  /\ UNCHANGED <<failed, exc>>
            [] outcome = "request_error" ->
                  /\ search_query_embedding' = PyNone
                  /\ failed' = failed \cup {"embedding"}
                  /\ pc' = "retrieving"
                  /\ UNCHANGED exc
            [] outcome = "malformed" ->
                  /\ Crash("embedding", ExceptionOf(outcome))
                  /\ UNCHANGED search_query_embedding
    /\ UNCHANGED <<app, app_messages, history, is_running, ncalls, question,
                   search_query, search_documents, retrieved_documents,
                   augmented_prompt, response, updated_history, history_in, side_vars>>

\* get_documents returning an empty list when the request fails
OrcGetDocumentsEmptyOnError ==
    /\ app = "orc"
    /\ pc = "retrieving"
    /\ requests' = Append(requests,
           SearchRequest(search_query, search_query_embedding, SelectedFields))
    /\ \E outcome \in Outcomes :
          CASE outcome = "ok" ->
                  /\ \E value \in SearchResponses : search_documents' = value
                  /\ pc' = "augmenting"
                  /\ UNCHANGED <<failed, exc>>
            [] outcome = "request_error" ->
                  /\ search_documents' = <<>>
                  /\ failed' = failed \cup {"retrieving"}
                  /\ pc' = "augmenting"
                  /\ UNCHANGED exc
            [] outcome = "malformed" ->
                  /\ Crash("retrieving", ExceptionOf(outcome))
                  /\ UNCHANGED search_documents
    /\ UNCHANGED <<app, app_messages, history, is_running, ncalls, question,
                   search_query, search_query_embedding, retrieved_documents,
                   augmented_prompt, response, updated_history, history_in, side_vars>>

\* get_documents(search_query, search_query_vector_embedding,
\* selected_fields="title,path,chunk")
OrcGetDocuments ==
    /\ app = "orc"
    /\ pc = "retrieving"
    /\ requests' = Append(requests,
           SearchRequest(search_query, search_query_embedding, SelectedFields))
    /\ \E outcome \in Outcomes :
          CASE outcome = "ok" ->
                  /\ \E value \in SearchResponses : search_documents' = value
                  /\ pc' = "augmenting"
                  /\ UNCHANGED <<failed, exc>>
            [] outcome = "request_error" ->
                  /\ search_documents' = PyFalseList
                  /\ failed' = failed \cup {"retrieving"}
                  /\ pc' = "augmenting"
                  /\ UNCHANGED exc
            [] outcome = "malformed" ->
                  /\ Crash("retrieving", ExceptionOf(outcome))
                  /\ UNCHANGED search_documents
    /\ UNCHANGED <<app, app_messages, history, is_running, ncalls, question,
                   search_query, search_query_embedding, retrieved_documents,
                   augmented_prompt, response, updated_history, history_in, side_vars>>

\* generate_chat_response: search_documents_filtered, generate_user_prompt, then
\* messages.pop() and messages.append of the augmented user message. Iterating
\* over False raises TypeError; a document without title, path or chunk raises
\* KeyError in generate_user_prompt; both before the history is touched
OrcAugment ==
    /\ app = "orc"
    /\ pc = "augmenting"
    /\ IF search_documents = PyFalseList
       THEN /\ Crash("none", "TypeError")
            /\ UNCHANGED <<history, augmented_prompt>>
       ELSE IF \E n \in 1..Len(search_documents) : ~HasAllFields(search_documents[n])
       THEN /\ Crash("none", "KeyError")
            /\ UNCHANGED <<history, augmented_prompt>>
       ELSE /\ augmented_prompt' = generate_user_prompt(question, search_documents)
            /\ history' = Append(Front(history),
                   UserTurn(generate_user_prompt(question, search_documents),
                            ProjectReferences(search_documents)))
            /\ pc' = "generating"
            /\ UNCHANGED <<failed, exc>>
    /\ UNCHANGED <<app, app_messages, is_running, ncalls, question, search_query,
                   search_query_embedding, search_documents, retrieved_documents,
                   response, updated_history, history_in, requests, side_vars>>

\* generate_assistant_response(message_history)
OrcGenerate ==
    /\ app = "orc"
    /\ pc = "generating"
    /\ requests' = Append(requests,
           ChatRequest(<<[role |-> "system", content |-> ChatResponseSystemMessage]>>
                       \o FilterRoleContent(history)))
    /\ \E outcome \in Outcomes :
          CASE outcome = "ok" ->
                  /\ \E a \in GenAnswers : response' = a
                  /\ pc' = "updating"
                  /\ UNCHANGED <<failed, exc>>
            [] outcome = "request_error" ->
                  /\ response' = PyFalse
                  /\ failed' = failed \cup {"generating"}
                  /\ pc' = "updating"
                  /\ UNCHANGED exc
            [] outcome = "malformed" ->
                  /\ Crash("generating", ExceptionOf(outcome))
                  /\ UNCHANGED response
    /\ UNCHANGED <<app, app_messages, history, is_running, ncalls, question,
                   search_query, search_query_embedding, search_documents,
                   retrieved_documents, augmented_prompt, updated_history,
                   history_in, side_vars>>

\* generate_chat_response: the assistant message is appended and the same
\* history object is returned
OrcAppendAssistant ==
    /\ app = "orc"
    /\ pc = "updating"
    /\ history' = Append(history, AssistantTurn(response))
    /\ updated_history' = Append(history, AssistantTurn(response))
    /\ pc' = "returned"
    /\ UNCHANGED <<app, app_messages, is_running, ncalls, question, search_query,
                   search_query_embedding, search_documents, retrieved_documents,
                   augmented_prompt, response, history_in, failed, requests, exc,
                   side_vars>>

\* dict.get("references") of a turn
GetReferences(turn) ==
    IF "references" \in DOMAIN turn THEN turn.references ELSE PyNoneList

\* create_completion after the client call, then main(): the assistant message
\* is the content of the last turn, its citations are rewritten with the
\* references of the turn before it, the result is shown and appended, and
\* is_running is cleared
OrcDisplay ==
    /\ app = "orc"
    /\ pc = "returned"
    /\ LET assistant_message == Last(updated_history).content
           shown == ReplaceReferencesOrc(assistant_message,
                        GetReferences(updated_history[Len(updated_history) - 1]))
       IN  app_messages' = Append(app_messages,
                               [role |-> "assistant", content |-> shown.value])
    /\ history' = updated_history
    /\ is_running' = FALSE
    /\ pc' = "idle"
    /\ UNCHANGED <<app, ncalls, call_vars, history_in, failed, requests, exc, side_vars>>

Next ==
    \/ Submit
    \/ UserRerun
    \/ RagStart
    \/ RagReformulate
    \/ RagEmbed
    \/ RagSearch
    \/ RagAugment
    \/ RagGenerate
    \/ RagUpdateHistory
    \/ RagDisplay
    \/ OrcStart
    \/ OrcReformulate
    \/ OrcEmbed
    \/ OrcGetDocuments
    \/ OrcAugment
    \/ OrcGenerate
    \/ OrcAppendAssistant
    \/ OrcDisplay

Spec == Init /\ [][Next]_vars

-----------------------------------------------------------------------------
(* Citation rewriting applied to drawn inputs, once and then again *)

InitRewrite ==
    /\ AppQuiet
    /\ CfgQuiet
    /\ ProvQuiet
    /\ rw_impl \in RwImpls
    /\ rw_answer \in Answers
    /\ rw_refs \in RefLists
    /\ rw_out1 = NoResult
    /\ rw_out2 = NoResult
    /\ rw_pc = "input"

RewriteOnce ==
    /\ rw_pc = "input"
    /\ rw_out1' = RwApply(rw_impl, rw_answer, rw_refs)
    /\ rw_pc' = "once"
    /\ UNCHANGED <<rw_impl, rw_answer, rw_refs, rw_out2, app_vars, cfg_vars, prov_vars>>

RewriteAgain ==
    /\ rw_pc = "once"
    /\ rw_out1.exc = "none"
    /\ rw_out2' = RwApply(rw_impl, rw_out1.value, rw_refs)
    /\ rw_pc' = "twice"
    /\ UNCHANGED <<rw_impl, rw_answer, rw_refs, rw_out1, app_vars, cfg_vars, prov_vars>>

NextRewrite == RewriteOnce \/ RewriteAgain

SpecRewrite == InitRewrite /\ [][NextRewrite]_vars

-----------------------------------------------------------------------------
(* Reading the system prompt configuration: __init__ of                       *)
(* RetrievalAugmentedGenerationClient and load_system_messages of             *)
(* src/app/main.py                                                            *)

CfgLoaders == {"client", "app"}

\* the two keys each reader asks the configuration for
ConfigKeys(loader) ==
    IF loader = "client"
    THEN [query |-> "search_query_system_message",
          chat |-> "chat_response_system_message"]
    ELSE [query |-> "query_system_message",
          chat |-> "product_info_chat_system_message"]

\* what a key of the file can hold: null, an empty text, a message
ConfigValues == {PyNone, NoText, SearchQuerySystemMessage, ChatResponseSystemMessage}

\* the mappings a configuration file can hold for a reader: any of its two
\* keys may be absent
ConfigMappings(loader) ==
    LET keys == {ConfigKeys(loader).query, ConfigKeys(loader).chat}
    IN  UNION { [K -> ConfigValues] : K \in SUBSET keys }

\* the file is not there; it is not YAML; it is YAML but no mapping; it is a
\* mapping
ConfigSources(loader) ==
    { [kind |-> "no_file"], [kind |-> "malformed"], [kind |-> "not_mapping"] }
        \cup { [kind |-> "mapping", entries |-> f] : f \in ConfigMappings(loader) }

\* dict.get(key): None for an absent key
DictGet(d, key) == IF key \in DOMAIN d THEN d[key] ELSE PyNone

NoMessages == [query |-> PyNone, chat |-> PyNone]

\* open(), yaml.safe_load() and the two configuration.get() calls
ReadSystemMessages(loader, source) ==
    CASE source.kind = "no_file" -> [exc |-> "FileNotFoundError", value |-> NoMessages]
      [] source.kind = "malformed" -> [exc |-> "YAMLError", value |-> NoMessages]
      [] source.kind = "not_mapping" -> [exc |-> "AttributeError", value |-> NoMessages]
      [] source.kind = "mapping" ->
            [exc |-> "none",
             value |-> [query |-> DictGet(source.entries, ConfigKeys(loader).query),
                        chat |-> DictGet(source.entries, ConfigKeys(loader).chat)]]

InitConfig ==
    /\ AppQuiet
    /\ RwQuiet
    /\ ProvQuiet
    /\ cfg_loader \in CfgLoaders
    /\ cfg_source \in ConfigSources(cfg_loader)
    /\ cfg_messages = NoMessages
    /\ cfg_pc = "start"
    /\ cfg_exc = "none"
    /\ cfg_requests = <<>>

\* what reading the configuration leaves behind
ConfigRead(done) ==
    LET read == ReadSystemMessages(cfg_loader, cfg_source)
    IN  /\ cfg_exc' = read.exc
        /\ cfg_messages' = read.value
        /\ cfg_pc' = IF read.exc = "none" THEN done ELSE "failed"
        /\ UNCHANGED <<cfg_loader, cfg_source, cfg_requests, app_vars, rw_vars, prov_vars>>

\* RetrievalAugmentedGenerationClient.__init__
ClientInit ==
    /\ cfg_loader = "client"
    /\ cfg_pc = "start"
    /\ ConfigRead("constructed")

\* load_system_messages(), whose result main() hands to the client constructor
LoadSystemMessages ==
    /\ cfg_loader = "app"
    /\ cfg_pc = "start"
    /\ ConfigRead("loaded")

\* the constructed client asks for a search query: retrieve_documents
ClientReformulate ==
    /\ cfg_pc = "constructed"
    /\ \E q \in Questions :
          cfg_requests' = Append(cfg_requests,
              ChatRequest(<< [role |-> "system", content |-> cfg_messages.query],
                             [role |-> "user", content |-> q] >>))
    /\ cfg_pc' = "reformulated"
    /\ UNCHANGED <<cfg_loader, cfg_source, cfg_messages, cfg_exc, app_vars, rw_vars,
                   prov_vars>>

\* the constructed client asks for the answer: generate_response
ClientGenerate ==
    /\ cfg_pc = "reformulated"
    /\ \E q \in Questions :
          cfg_requests' = Append(cfg_requests,
              ChatRequest(<< [role |-> "system", content |-> cfg_messages.chat],
                             [role |-> "user", content |-> augment_prompt(q, <<>>)] >>))
    /\ cfg_pc' = "generated"
    /\ UNCHANGED <<cfg_loader, cfg_source, cfg_messages, cfg_exc, app_vars, rw_vars,
                   prov_vars>>

NextConfig ==
    \/ ClientInit
    \/ LoadSystemMessages
    \/ ClientReformulate
    \/ ClientGenerate

SpecConfig == InitConfig /\ [][NextConfig]_vars

-----------------------------------------------------------------------------
(* Provisioning the search service: CustomSearchClient of                     *)
(* src/search/custom_search_client.py and AISearchClient of                   *)
(* src/src/search/utilities.py                                                *)

ProvClients == {"custom", "ais"}

AssetTypes == {"indexes", "datasources", "skillsets", "indexers"}

\* how the service answers a request: status 200; another status, such as
\* 404; no answer (requests.exceptions.RequestException)
ServiceAnswers == {"200", "404", "error"}

\* the answers the service can give to the existence checks of one operation:
\* it answers 200 only for an asset that exists
CheckAnswers(types, assets) ==
    { a \in [types -> ServiceAnswers] :
        \A t \in types : a[t] = "200" => t \in assets }

\* the answers to a PUT or POST: raise_for_status turns a status that is not
\* 2xx into a RequestException
WriteAnswers == {"200", "error"}

\* raise ValueError("... does not exist.")
DoesNotExist(t) ==
    CASE t = "indexes" -> "ValueError: Index does not exist."
      [] t = "datasources" -> "ValueError: Data source does not exist."
      [] t = "skillsets" -> "ValueError: Skillset does not exist."
      [] t = "indexers" -> "ValueError: Indexer does not exist."

\* an indexer creation that checks the index only
CustomDependenciesIndexOnly(t) ==
    CASE t \in {"skillsets", "indexers"} -> <<"indexes">>
      [] OTHER -> <<>>

\* the existence checks create_search_management_asset makes, in order
CustomDependencies(t) ==
    CASE t = "skillsets" -> <<"indexes">>
      [] t = "indexers" -> <<"indexes", "datasources", "skillsets">>
      [] OTHER -> <<>>

\* the existence checks create_skillset and create_indexer make, in order
AisDependencies(t) ==
    CASE t = "skillsets" -> <<"indexes">>
      [] t = "indexers" -> <<"datasources", "indexes", "skillsets">>
      [] OTHER -> <<>>

Request(method, t, status) == [method |-> method, asset |-> t, status |-> status]

\* the existence checks of deps in order, up to the first that is not
\* answered with 200: the requests sent and "ok", the ValueError, or
\* "RequestException"
RECURSIVE CheckDependencies(_, _)
CheckDependencies(deps, a) ==
    IF deps = <<>> THEN [log |-> <<>>, result |-> "ok"]
    ELSE LET t == Head(deps)
             get == Request("GET", t, a[t])
         IN  IF a[t] = "error" THEN [log |-> <<get>>, result |-> "RequestException"]
             ELSE IF a[t] # "200" THEN [log |-> <<get>>, result |-> DoesNotExist(t)]
             ELSE LET rest == CheckDependencies(Tail(deps), a)
                  IN  [log |-> <<get>> \o rest.log, result |-> rest.result]

\* what the caller of an AISearchClient method gets when a
\* RequestException is caught: create_* return False, run_indexer ends
\* without a return value
AisCaught(result, value) == IF result = "RequestException" THEN value ELSE result

InitSearch ==
    /\ AppQuiet
    /\ RwQuiet
    /\ CfgQuiet
    /\ prov_client \in ProvClients
    /\ prov_assets \in SUBSET AssetTypes
    /\ prov_op = [name |-> "none"]
    /\ prov_log = <<>>
    /\ prov_result = "none"
    /\ prov_nops = 0

\* an operation is called on the client
OpBegins(client, op) ==
    /\ prov_client = client
    /\ prov_nops < MaxOps
    /\ prov_nops' = prov_nops + 1
    /\ prov_op' = op
    /\ UNCHANGED <<prov_client, app_vars, rw_vars, cfg_vars>>

\* a creation: the checks, then the PUT when they all passed
Creates(t, deps, a, put, returned, caught) ==
    LET checks == CheckDependencies(deps, a)
    IN  IF checks.result # "ok"
        THEN /\ prov_log' = checks.log
             /\ prov_result' = IF caught THEN AisCaught(checks.result, "False")
                               ELSE checks.result
             /\ UNCHANGED prov_assets
        ELSE /\ prov_log' = Append(checks.log, Request("PUT", t, put))
             /\ IF put = "200"
                THEN /\ prov_assets' = prov_assets \cup {t}
                     /\ prov_result' = returned
                ELSE /\ prov_result' = IF caught THEN "False" ELSE "RequestException"
                     /\ UNCHANGED prov_assets

\* CustomSearchClient.create_search_management_asset(asset_type)
CustomCreate ==
    \E t \in AssetTypes, put \in WriteAnswers :
      \E a \in CheckAnswers(Range(CustomDependencies(t)), prov_assets) :
        /\ OpBegins("custom", [name |-> "create", asset |-> t])
        /\ Creates(t, CustomDependencies(t), a, put, "Response", FALSE)

\* AISearchClient.create_index()
AisCreateIndex ==
    \E put \in WriteAnswers :
        /\ OpBegins("ais", [name |-> "create", asset |-> "indexes"])
        /\ Creates("indexes", <<>>, <<>>, put, "True", TRUE)

\* AISearchClient.create_data_source()
AisCreateDataSource ==
    \E put \in WriteAnswers :
        /\ OpBegins("ais", [name |-> "create", asset |-> "datasources"])
        /\ Creates("datasources", <<>>, <<>>, put, "True", TRUE)

\* AISearchClient.create_skillset()
AisCreateSkillset ==
    \E a \in CheckAnswers(Range(AisDependencies("skillsets")), prov_assets),
       put \in WriteAnswers :
        /\ OpBegins("ais", [name |-> "create", asset |-> "skillsets"])
        /\ Creates("skillsets", AisDependencies("skillsets"), a, put, "True", TRUE)

\* AISearchClient.create_indexer()
AisCreateIndexer ==
    \E a \in CheckAnswers(Range(AisDependencies("indexers")), prov_assets),
       put \in WriteAnswers :
        /\ OpBegins("ais", [name |-> "create", asset |-> "indexers"])
        /\ Creates("indexers", AisDependencies("indexers"), a, put, "True", TRUE)

\* CustomSearchClient.run_indexer(reset_flag): "if not
\* self.check_search_management_asset_exists("indexers"): raise ValueError"
CustomRunIndexer ==
    \E reset \in BOOLEAN, a \in CheckAnswers({"indexers"}, prov_assets),
       post \in WriteAnswers :
        LET get == Request("GET", "indexers", a["indexers"])
        IN  /\ OpBegins("custom", [name |-> "run_indexer", reset |-> reset])
            /\ UNCHANGED prov_assets
            /\ CASE a["indexers"] = "error" ->
                       /\ prov_log' = <<get>>
                       /\ prov_result' = "RequestException"
                 [] a["indexers"] = "404" ->
                       /\ prov_log' = <<get>>
                       /\ prov_result' = DoesNotExist("indexers")
                 [] a["indexers"] = "200" ->
                       /\ prov_log' = <<get, Request("POST", "indexers", post)>>
                       /\ prov_result' = IF post = "200" THEN "Response"
                                         ELSE "RequestException"

\* AISearchClient.run_indexer(reset_flag): "if self.check_indexer_exists():
\* raise ValueError"; a RequestException is caught and nothing is returned
AisRunIndexer ==
    \E reset \in BOOLEAN, a \in CheckAnswers({"indexers"}, prov_assets),
       post \in WriteAnswers :
        LET get == Request("GET", "indexers", a["indexers"])
        IN  /\ OpBegins("ais", [name |-> "run_indexer", reset |-> reset])
            /\ UNCHANGED prov_assets
            /\ CASE a["indexers"] = "error" ->
                       /\ prov_log' = <<get>>
                       /\ prov_result' = "None"
                 [] a["indexers"] = "200" ->
                       /\ prov_log' = <<get>>
                       /\ prov_result' = DoesNotExist("indexers")
                 [] a["indexers"] = "404" ->
                       /\ prov_log' = <<get, Request("POST", "indexers", post)>>
                       /\ prov_result' = IF post = "200" THEN "True" ELSE "None"

NextSearch ==
    \/ CustomCreate
    \/ AisCreateIndex
    \/ AisCreateDataSource
    \/ AisCreateSkillset
    \/ AisCreateIndexer
    \/ CustomRunIndexer
    \/ AisRunIndexer

SpecSearch == InitSearch /\ [][NextSearch]_vars

-----------------------------------------------------------------------------
(* Citation rewriting: what the claims speak about *)

Occurrences(s, p) == Cardinality({ i \in 1..Len(s) : IsAt(s, i, p) })

DotMd == <<".", "m", "d">>

EndsWith(s, suffix) ==
    Len(s) >= Len(suffix) /\ SubSeq(s, Len(s) - Len(suffix) + 1, Len(s)) = suffix

\* the citation markers of a text, read off the text itself: the tokens t
\* without brackets that end in ".md" and stand between "[" and "]"
CitationTokens(s) ==
    { SubSeq(s, i + 1, j - 1) : <<i, j>> \in
        { ij \in (1..Len(s)) \X (1..Len(s)) :
            /\ ij[1] < ij[2]
            /\ s[ij[1]] = "["
            /\ s[ij[2]] = "]"
            /\ \A k \in (ij[1] + 1)..(ij[2] - 1) : s[k] \notin {"[", "]"}
            /\ EndsWith(SubSeq(s, ij[1] + 1, ij[2] - 1), DotMd) } }

\* the start of a markdown link labelled with the back-quoted token
LinkHead(t) == <<"[">> \o Label(t) \o <<"]", "(">>

RefsWithTitle(refs, t) ==
    IF TruthyList(refs) THEN { n \in 1..Len(refs) : refs[n].title = t } ELSE {}

RwDone == rw_pc \in {"once", "twice"} /\ IsText(rw_answer)

\* C4: rewriting the rewritten text again with the same references gives the
\* text of the first rewriting.
C4_RewriteIdempotent ==
    rw_pc = "twice" => rw_out2 = rw_out1

\* C5: every citation marker whose token is the title of a reference is replaced
\* by a link labelled with the back-quoted token and pointing to the path of a
\* reference with that title; no raw marker of it is left.
C5_MatchedMarkerBecomesLink ==
    RwDone =>
        \A t \in CitationTokens(rw_answer) :
            RefsWithTitle(rw_refs, t) # {} =>
                /\ rw_out1.exc = "none"
                /\ ~Contains(rw_out1.value, Marker(t))
                /\ \E n \in RefsWithTitle(rw_refs, t) :
                       Occurrences(rw_out1.value, Link(t, rw_refs[n].path))
                           = Occurrences(rw_answer, Marker(t))

\* C6: with an empty reference list every citation marker becomes the
\* back-quoted token alone: no exception, no link, no raw brackets.
C6_EmptyRefsGiveLabels ==
    (RwDone /\ rw_refs = <<>>) =>
        /\ rw_out1.exc = "none"
        /\ \A t \in CitationTokens(rw_answer) :
               /\ ~Contains(rw_out1.value, Marker(t))
               /\ ~Contains(rw_out1.value, LinkHead(t))
               /\ Occurrences(rw_out1.value, Label(t))
                      = Occurrences(rw_answer, Marker(t))

\* C7: with a non-empty reference list, a citation marker whose token is no
\* reference's title becomes the back-quoted token alone: no exception, no
\* link, no raw brackets.
C7_UnmatchedMarkerGivesLabel ==
    (RwDone /\ TruthyList(rw_refs)) =>
        \A t \in CitationTokens(rw_answer) :
            RefsWithTitle(rw_refs, t) = {} =>
                /\ rw_out1.exc = "none"
                /\ ~Contains(rw_out1.value, Marker(t))
                /\ ~Contains(rw_out1.value, LinkHead(t))
                /\ Contains(rw_out1.value, Label(t))

\* C8: when the answer holds several distinct citation markers, each of them
\* is rewritten in the returned text: none is left as a raw marker and each
\* token appears back-quoted.
C8_AllMarkersRewritten ==
    (RwDone /\ Cardinality(CitationTokens(rw_answer)) >= 2) =>
        \A t \in CitationTokens(rw_answer) :
            /\ ~Contains(rw_out1.value, Marker(t))
            /\ Contains(rw_out1.value, Label(t))

\* C9: when several references have the same title, a marker with that title
\* is linked to the path of the first of them in list order.
C9_FirstDuplicateWins ==
    RwDone =>
        \A t \in CitationTokens(rw_answer) :
            Cardinality(RefsWithTitle(rw_refs, t)) >= 2 =>
                LET first == rw_refs[Min(RefsWithTitle(rw_refs, t))].path
                IN  /\ Contains(rw_out1.value, Link(t, first))
                    /\ \A n \in RefsWithTitle(rw_refs, t) :
                           rw_refs[n].path # first =>
                               ~Contains(rw_out1.value, Link(t, rw_refs[n].path))

-----------------------------------------------------------------------------
(* The answer call and the conversation history *)

\* the call has ended: its result is back at the caller, or an exception
\* has ended the script run
CallEnded == pc \in {"returned", "crashed"}

\* C1: when an upstream stage of the call has failed, the call ends with the
\* history equal to the history it was given.
C1_FailedCallLeavesHistory ==
    (CallEnded /\ failed # {}) => history = history_in

\* a turn is an augmented user turn: role user, carrying references, its
\* content holding the sources header
IsAugmentedUserTurn(turn) ==
    /\ turn.role = "user"
    /\ "references" \in DOMAIN turn
    /\ Contains(turn.content, SourcesHeader)

CompletePairs(h) ==
    /\ Len(h) % 2 = 0
    /\ \A i \in 1..Len(h) :
          IF i % 2 = 1 THEN IsAugmentedUserTurn(h[i]) ELSE h[i].role = "assistant"

\* no call is in flight and no submitted prompt is waiting for its call
BetweenCalls == pc \in {"idle", "crashed"}

\* C2: between calls the history consists of complete pairs only, an
\* augmented user turn followed by its assistant turn.
C2_HistoryIsCompletePairs ==
    BetweenCalls => CompletePairs(history)

\* the {title, path} projection of a document list, written out
TitlePathList(documents) ==
    [n \in 1..Len(documents) |->
        [title |-> documents[n].title, path |-> documents[n].path]]

\* the two turns of one question
TwoTurns(prompt, documents, answer) ==
    << [role |-> "user", content |-> prompt, references |-> TitlePathList(documents)],
       [role |-> "assistant", content |-> answer] >>

-----------------------------------------------------------------------------
(* Order of the sources in the prompt *)

\* the lines of a text, each ended by a newline
RECURSIVE LinesFrom(_, _, _)
LinesFrom(s, i, line) ==
    IF i > Len(s) THEN (IF line = <<>> THEN <<>> ELSE <<line>>)
    ELSE IF s[i] = "\n" THEN <<line>> \o LinesFrom(s, i + 1, <<>>)
    ELSE LinesFrom(s, i + 1, Append(line, s[i]))

IsPrefix(p, s) == IsAt(s, 1, p)

\* what follows the question and the sources header in the prompt
SourcesSection(prompt, q) ==
    LET start == CHOOSE i \in (Len(q) + 1)..Len(prompt) : IsAt(prompt, i, SourcesHeader)
    IN  SubSeq(prompt, start + Len(SourcesHeader), Len(prompt))

FieldSeparator == IF app = "rag" THEN <<" ", ":", ":", " ">> ELSE <<":">>

PromptBuilt == pc \in {"generating", "updating", "returned"}

\* C10: the sources section of the prompt has one line per document of the
\* search response, line n naming title and path of document n of the response.
C10_SourcesInResponseOrder ==
    PromptBuilt =>
        LET lines == LinesFrom(SourcesSection(augmented_prompt, question), 1, <<>>)
        IN  /\ Len(lines) = Len(search_documents)
            /\ \A n \in 1..Len(search_documents) :
                   IsPrefix(search_documents[n].title \o FieldSeparator
                                \o search_documents[n].path \o FieldSeparator,
                            lines[n])

\* a prompt has been built from a response whose two documents differ
C10_Witness ==
    /\ pc = "generating"
    /\ search_documents = <<Doc2, Doc1>>

-----------------------------------------------------------------------------
(* The prompt built from no document *)

\* "Sources:" and the newline that ends it
SourcesLine == Tail(SourcesHeader)

OnlyNewlines(s) == \A i \in 1..Len(s) : s[i] = "\n"

\* the text is the question, then line ends only, then the sources line, and
\* nothing after it
QuestionThenSourcesOnly(prompt, q) ==
    /\ IsPrefix(q, prompt)
    /\ EndsWith(prompt, SourcesLine)
    /\ Len(prompt) > Len(q) + Len(SourcesLine)
    /\ OnlyNewlines(SubSeq(prompt, Len(q) + 1, Len(prompt) - Len(SourcesLine)))

\* C11: when retrieval has returned no document, the augmentation step does
\* not fail and the prompt it builds is the question followed by the sources
\* header, with nothing after "Sources:" and its newline.
C11_EmptySourcesPrompt ==
    [][(pc = "augmenting" /\ search_documents = <<>>) =>
          /\ pc' = "generating"
          /\ exc' = "none"
          /\ QuestionThenSourcesOnly(augmented_prompt', question)]_vars

\* a prompt has been built from an empty retrieval result
C11_Witness ==
    /\ pc = "generating"
    /\ search_documents = <<>>
    /\ QuestionThenSourcesOnly(augmented_prompt, question)

-----------------------------------------------------------------------------
(* The records of the sources section *)

\* "{title} :: {path} :: {normalized_chunk}" ended by a newline
RecordEndedByNewline(doc) ==
    doc.title \o <<" ", ":", ":", " ">> \o doc.path \o <<" ", ":", ":", " ">>
        \o preprocess_text(doc.chunk) \o <<"\n">>

\* C12: the prompt built by augment_prompt is the question, then "\nSources:\n",
\* then for each document its record "{title} :: {path} :: {normalized_chunk}"
\* ended by a newline, with nothing between the normalized chunk and the
\* newline.
C12_RecordsEndedByNewline ==
    (app = "rag" /\ PromptBuilt) =>
        augmented_prompt
            = question \o SourcesHeader
                \o Concat([n \in 1..Len(retrieved_documents) |->
                              RecordEndedByNewline(retrieved_documents[n])])

-----------------------------------------------------------------------------
(* Order of the stages of one answer call *)

\* the stages of a call, in pipeline order
Stages ==
    <<"reformulating", "embedding", "retrieving", "augmenting", "generating", "updating">>

InStage(p) == \E k \in 1..Len(Stages) : Stages[k] = p

StageIndex(p) == CHOOSE k \in 1..Len(Stages) : Stages[k] = p

\* the client is idle: no call is running in it
ClientIdle(p) == ~InStage(p)

\* C13: in a call of RetrievalAugmentedGenerationClient.get_answer every step
\* taken in a stage leaves that stage; a stage is entered either from idle (the
\* first stage) or from the stage before it, with no failure recorded (each
\* following stage); a stage is left for the next stage or for idle, and the
\* last stage for idle only.
C13_StagesInOrder ==
    [][app = "rag" =>
          /\ InStage(pc) => pc' # pc
          /\ (InStage(pc') /\ pc' # pc) =>
                IF ClientIdle(pc) THEN pc' = Stages[1]
                ELSE /\ StageIndex(pc') = StageIndex(pc) + 1
                     /\ failed' = {}
                     /\ exc' = "none"
          /\ (InStage(pc) /\ ClientIdle(pc')) =>
                \/ pc' = "crashed" /\ exc' # "none"
                \/ pc' = "returned" /\ pc = Stages[Len(Stages)] /\ failed' = {}]_vars

\* a call of the RAG client has gone through all its stages: its four
\* requests were sent in pipeline order and the updated history is returned
C13_Witness ==
    /\ app = "rag"
    /\ pc = "returned"
    /\ [n \in 1..Len(requests) |-> requests[n].endpoint]
           = <<"chat", "embedding", "search", "chat">>
    /\ Len(updated_history) = Len(history_in) + 2

-----------------------------------------------------------------------------
(* Failures of a stage *)

\* the embedding and search requests of the call carry a query that is text
\* and not empty
QueriesPresent ==
    \A n \in 1..Len(requests) :
        /\ requests[n].endpoint = "embedding" => TruthyText(requests[n].input)
        /\ requests[n].endpoint = "search" => TruthyText(requests[n].search)

\* C14: once a stage of the call has failed no stage of that call runs any
\* more, and no embedding or search request is made with an empty or missing
\* query.
C14_FailureEndsCall ==
    /\ failed # {} => ClientIdle(pc)
    /\ QueriesPresent

-----------------------------------------------------------------------------
(* Empty and failed retrieval *)

\* what the retrieval step hands to the rest of the call
RetrievalResult ==
    IF app = "rag" THEN retrieved_documents ELSE search_documents

\* C15: a search that succeeds with zero documents gives the empty list and
\* the call goes on to augmentation without an error; a search that fails
\* ends the call with an exception or gives a result that is not a list of
\* documents, never the empty list; and no prompt is built in a call whose
\* search has failed.
C15_EmptyIsNotFailure ==
    [][/\ pc = "retrieving" =>
             IF "retrieving" \in failed'
             THEN \/ pc' = "crashed" /\ exc' # "none"
                  \/ RetrievalResult' = PyFalseList
             ELSE search_documents' = <<>> =>
                      /\ RetrievalResult' = <<>>
                      /\ pc' = "augmenting"
                      /\ exc' = "none"
       /\ "retrieving" \in failed' => pc' \notin {"generating", "updating", "returned"}]_vars

\* get_documents has failed and the call holds a result that is not the
\* empty list
C15_Witness ==
    /\ app = "orc"
    /\ pc = "augmenting"
    /\ "retrieving" \in failed
    /\ search_documents = PyFalseList

-----------------------------------------------------------------------------
(* Documents that lack a field *)

\* the documents of a list that carry title, path and chunk, in order
CompleteDocuments(documents) == SelectSeq(documents, HasAllFields)

\* the search of the call has answered with a list holding a document that
\* lacks a field
IncompleteDocumentReturned ==
    /\ search_documents # PyFalseList
    /\ \E n \in 1..Len(search_documents) : ~HasAllFields(search_documents[n])

\* C16: when the search response holds a document without title, path or
\* chunk, what retrieval hands to prompt construction is the response without
\* that document, the other documents kept in order, and the call does not
\* end with an exception unless a request of it has failed.
C16_IncompleteDocumentsDropped ==
    IncompleteDocumentReturned =>
        /\ RetrievalResult = CompleteDocuments(search_documents)
        /\ pc = "crashed" => failed # {}

-----------------------------------------------------------------------------
(* References of a turn *)

HasReferences(turn) == "references" \in DOMAIN turn

\* a turn of h2 that carries references is a turn h1 held at the same place,
\* or is the user turn the running call has built and carries the projection
\* of the given documents
ReferencesFrom(h1, h2, documents) ==
    \A i \in 1..Len(h2) :
        HasReferences(h2[i]) =>
            \/ i <= Len(h1) /\ h2[i] = h1[i]
            \/ /\ h2[i].role = "user"
               /\ h2[i].content = augmented_prompt'
               /\ h2[i].references = TitlePathList(documents)

\* C17: in every step, a turn of the stored or returned history that carries
\* references either was in the history before the step, or is the user turn
\* of the running call and carries the {title, path} projection of that
\* call's retrieval result, document by document in its order.
C17_ReferencesOfOwnRetrieval ==
    [][/\ ReferencesFrom(history, history', RetrievalResult')
       /\ ReferencesFrom(history, updated_history', RetrievalResult')]_vars

\* a second call has returned: its turn references the same document twice,
\* the turn of the first call references other documents
C17_Witness ==
    /\ pc = "returned"
    /\ Len(updated_history) = 4
    /\ updated_history[3].references = TitlePathList(<<Doc1, Doc1>>)
    /\ updated_history[1].references = TitlePathList(<<Doc2, Doc1>>)

-----------------------------------------------------------------------------
(* The generation request *)

\* a request of the generation step: a chat request opened by the chat
\* system message
IsGenerationRequest(r) ==
    /\ r.endpoint = "chat"
    /\ r.messages[1] = [role |-> "system", content |-> ChatResponseSystemMessage]

GenerationRequests == SelectSeq(requests, IsGenerationRequest)

\* the turns that precede the question of the running call: the RAG client is
\* given them as the history, the orchestration client is given them followed
\* by the turn of the question itself
PriorTurns == IF app = "rag" THEN history_in ELSE Front(history_in)

\* messages 2 .. n-1 are the prior turns, each with its role and content and
\* nothing else; message n is the augmented user message
CarriesPriorTurnsThenPrompt(messages) ==
    /\ Len(messages) = Len(PriorTurns) + 2
    /\ \A i \in 1..Len(PriorTurns) :
          /\ DOMAIN messages[i + 1] = {"role", "content"}
          /\ messages[i + 1].role = PriorTurns[i].role
          /\ messages[i + 1].content = PriorTurns[i].content
    /\ Last(messages) = [role |-> "user", content |-> augmented_prompt]

\* C18: a call sends at most one generation request; once the generation step
\* has run it has sent exactly one, as the last request of the call, and its
\* message list is the chat system message, the prior turns in order reduced
\* to role and content, and the augmented user message last.
C18_GenerationRequest ==
    /\ Len(GenerationRequests) <= 1
    /\ pc \in {"updating", "returned"} =>
          /\ Len(GenerationRequests) = 1
          /\ Last(requests) = GenerationRequests[1]
          /\ CarriesPriorTurnsThenPrompt(GenerationRequests[1].messages)

\* the generation request of a call has been sent with an earlier turn that
\* carries references among the prior turns
C18_Witness ==
    /\ pc = "updating"
    /\ Len(GenerationRequests) = 1
    /\ \E i \in 1..Len(PriorTurns) : HasReferences(PriorTurns[i])

-----------------------------------------------------------------------------
(* Assistant turns *)

\* every assistant turn of h holds a text the chat model has returned
AssistantTurnsGenerated(h) ==
    \A i \in 1..Len(h) : h[i].role = "assistant" => h[i].content \in GenAnswers

\* C19: every assistant turn of the stored and of the returned history holds
\* the text of a successful generation call; and a call whose generation
\* request failed ends with an exception or with a result that is not a text.
C19_AssistantTurnsAreAnswers ==
    /\ AssistantTurnsGenerated(history)
    /\ AssistantTurnsGenerated(updated_history)
    /\ ("generating" \in failed /\ CallEnded) =>
          \/ pc = "crashed" /\ exc # "none"
          \/ ~IsText(response)

-----------------------------------------------------------------------------
(* Turns once appended *)

\* every turn of h1 is in h2 at the same position, with the same role,
\* content and references
KeepsTurns(h1, h2) ==
    /\ Len(h1) <= Len(h2)
    /\ \A i \in 1..Len(h1) : h2[i] = h1[i]

\* C20: the turns the history held when a call began are in the stored
\* history at their positions, unchanged, during the call and after it, and in
\* the history the call returns.
C20_TurnsNeverChange ==
    /\ KeepsTurns(history_in, history)
    /\ pc = "returned" => KeepsTurns(history_in, updated_history)

-----------------------------------------------------------------------------
(* Roles in the generation request *)

\* one system message, then user and assistant messages in turn, a user
\* message first and last
RolesAlternate(messages) ==
    /\ Len(messages) >= 2
    /\ messages[1].role = "system"
    /\ \A i \in 2..Len(messages) :
          messages[i].role = IF i % 2 = 0 THEN "user" ELSE "assistant"
    /\ Last(messages).role = "user"

\* C21: in every generation request the messages are one system message, then
\* user and assistant messages strictly alternating, beginning with a user
\* message and ending with the new user message.
C21_RolesAlternate ==
    \A n \in 1..Len(GenerationRequests) :
        /\ RolesAlternate(GenerationRequests[n].messages)
        /\ Last(GenerationRequests[n].messages).content = augmented_prompt

\* a generation request has been sent in a call that follows a completed pair
C21_Witness ==
    /\ Len(GenerationRequests) = 1
    /\ Len(GenerationRequests[1].messages) = 4
    /\ GenerationRequests[1].messages[3].role = "assistant"

-----------------------------------------------------------------------------
(* Requests of one call *)

IsReformulationRequest(r) ==
    /\ r.endpoint = "chat"
    /\ r.messages[1] = [role |-> "system", content |-> SearchQuerySystemMessage]

IsEmbeddingRequest(r) == r.endpoint = "embedding"

IsSearchRequest(r) == r.endpoint = "search"

\* how many requests of the call each upstream service has received
RequestCounts ==
    [reformulation |-> Len(SelectSeq(requests, IsReformulationRequest)),
     embedding |-> Len(SelectSeq(requests, IsEmbeddingRequest)),
     search |-> Len(SelectSeq(requests, IsSearchRequest)),
     generation |-> Len(GenerationRequests)]

\* C22: within one call the reformulation request, the embedding request, the
\* search request and the generation request are each sent at most once,
\* whether they succeed or fail.
C22_NoRetry ==
    /\ \A kind \in DOMAIN RequestCounts : RequestCounts[kind] <= 1
    /\ Len(requests) =
          RequestCounts.reformulation + RequestCounts.embedding
              + RequestCounts.search + RequestCounts.generation

\* a call in which two requests failed has ended with four requests sent
C22_Witness ==
    /\ pc = "returned"
    /\ {"reformulating", "generating"} \subseteq failed
    /\ Len(requests) = 4

-----------------------------------------------------------------------------
(* The system prompt configuration *)

\* the configuration read gives no message for one of the two keys
LacksSystemMessage ==
    \/ cfg_source.kind # "mapping"
    \/ \E key \in {ConfigKeys(cfg_loader).query, ConfigKeys(cfg_loader).chat} :
          DictGet(cfg_source.entries, key) = PyNone

\* a client has been constructed from the configuration
ClientConstructed == cfg_pc \in {"constructed", "reformulated", "generated"}

\* C23: when the configuration lacks one of the two system messages, the
\* construction of the client fails with an exception: no client is ever
\* constructed from such a configuration, and no chat request is sent whose
\* system message is absent.
C23_MissingPromptIsFatal ==
    /\ (cfg_loader = "client" /\ cfg_pc # "start" /\ LacksSystemMessage) =>
          /\ ~ClientConstructed
          /\ cfg_exc # "none"
    /\ \A n \in 1..Len(cfg_requests) :
          cfg_requests[n].messages[1].content # PyNone

-----------------------------------------------------------------------------
(* Provisioning: dependencies of a creation *)

\* the assets that must exist before an asset is created
Required(t) ==
    CASE t = "skillsets" -> {"indexes"}
      [] t = "indexers" -> {"indexes", "datasources", "skillsets"}
      [] OTHER -> {}

Sent(method) == { n \in 1..Len(prov_log) : prov_log[n].method = method }

\* C24: a creation sends its PUT only when every asset it depends on exists
\* and was found by a check sent before the PUT; and when a check is answered
\* that the asset is missing, the creation ends with the ValueError naming
\* that asset and no PUT is sent.
C24_DependenciesChecked ==
    prov_op.name = "create" =>
        /\ \A n \in Sent("PUT") :
              /\ prov_log[n].asset = prov_op.asset
              /\ \A d \in Required(prov_op.asset) :
                    /\ d \in prov_assets
                    /\ \E m \in 1..(n - 1) : prov_log[m] = Request("GET", d, "200")
        /\ Required(prov_op.asset) \ prov_assets # {} => Sent("PUT") = {}
        /\ \A n \in Sent("GET") :
              prov_log[n].status = "404" =>
                  /\ Sent("PUT") = {}
                  /\ prov_result = DoesNotExist(prov_log[n].asset)

\* an indexer creation was refused for a missing skillset after the index and
\* the data source had been found
C24_Witness ==
    /\ prov_op = [name |-> "create", asset |-> "indexers"]
    /\ {"indexes", "datasources"} \subseteq prov_assets
    /\ "skillsets" \notin prov_assets
    /\ Len(prov_log) = 3
    /\ prov_result = DoesNotExist("skillsets")

\* C25: run_indexer sends the run or reset request exactly when its check
\* has found the indexer; when the indexer does not exist and the check says
\* so, it ends with "Indexer does not exist." and sends no such request.
C25_RunsExistingIndexerOnly ==
    prov_op.name = "run_indexer" =>
        /\ Sent("POST") # {} <=> Request("GET", "indexers", "200") \in Range(prov_log)
        /\ ("indexers" \notin prov_assets
                /\ Request("GET", "indexers", "404") \in Range(prov_log)) =>
              /\ Sent("POST") = {}
              /\ prov_result = DoesNotExist("indexers")

-----------------------------------------------------------------------------
(* Bracketed tokens that are no citation markers *)

\* the tokens that stand between "[" and "]" in a text and do not end in ".md"
OtherBracketTokens(s) ==
    { SubSeq(s, i + 1, j - 1) : <<i, j>> \in
        { ij \in (1..Len(s)) \X (1..Len(s)) :
            /\ ij[1] < ij[2]
            /\ s[ij[1]] = "["
            /\ s[ij[2]] = "]"
            /\ \A k \in (ij[1] + 1)..(ij[2] - 1) : s[k] \notin {"[", "]"}
            /\ ~EndsWith(SubSeq(s, ij[1] + 1, ij[2] - 1), DotMd) } }

\* C26: a bracketed token that does not end in ".md" is left as it is: it
\* occurs in the returned text as often as in the answer, and is nowhere
\* turned into a back-quoted label; and an answer without any citation marker
\* is returned unchanged.
C26_OnlyMarkersRewritten ==
    RwDone =>
        /\ \A t \in OtherBracketTokens(rw_answer) :
              /\ Occurrences(rw_out1.value, Marker(t)) = Occurrences(rw_answer, Marker(t))
              /\ ~Contains(rw_out1.value, Label(t))
        /\ CitationTokens(rw_answer) = {} => rw_out1.value = rw_answer

-----------------------------------------------------------------------------
(* What is passed from stage to stage *)

\* C27: the input of the embedding request is the search query that
\* reformulation returned; the search text of the search request is that same
\* query, and its vector is the embedding that the embedding request returned.
C27_PassedUnchanged ==
    \A n \in 1..Len(requests) :
        /\ IsEmbeddingRequest(requests[n]) =>
              /\ requests[n].input = search_query
              /\ "reformulating" \notin failed => requests[n].input \in Queries
        /\ IsSearchRequest(requests[n]) =>
              /\ requests[n].search = search_query
              /\ requests[n].vector = search_query_embedding
              /\ \E m \in 1..(n - 1) :
                    /\ IsEmbeddingRequest(requests[m])
                    /\ requests[m].input = requests[n].search
              /\ "embedding" \notin failed => requests[n].vector \in Embeddings

\* the search request of a call has been sent after reformulation and
\* embedding had both answered
C27_Witness ==
    /\ pc = "augmenting"
    /\ failed = {}
    /\ Len(requests) = 3
    /\ requests[2].input \in Queries
    /\ requests[3].vector \in Embeddings

-----------------------------------------------------------------------------
(* The chat UI loop: prompts and answer calls *)

\* the prompts submitted so far, counted as the user messages shown
SubmittedPrompts == Cardinality({ n \in 1..Len(app_messages) : app_messages[n].role = "user" })

\* an answer call is between its start and the end of the script run that made it
CallInFlight == pc \in Range(Stages) \cup {"returned"}

\* while a prompt waits for its assistant message the input is disabled, and
\* a call is in flight only for such a prompt
BlockedWhileAnswering ==
    /\ Last(app_messages).role = "user" => is_running
    /\ CallInFlight => is_running /\ Last(app_messages).role = "user"

\* a call starts only from the rerun after a submission, with a user message
\* last, and a prompt is accepted only while is_running is false
StartsAndAccepts ==
    /\ ncalls' # ncalls =>
          /\ ncalls' = ncalls + 1
          /\ ~CallInFlight
          /\ Last(app_messages).role = "user"
    /\ SubmittedPrompts' # SubmittedPrompts =>
          /\ ~is_running
          /\ ~CallInFlight
          /\ is_running'

\* every submitted prompt has had exactly one call started for it, except the
\* prompt whose call is about to start
OneCallPerPrompt ==
    IF pc = "rerun" /\ exc = "none"
    THEN ncalls = SubmittedPrompts - 1
    ELSE ncalls = SubmittedPrompts

\* C28: at most one answer call is in flight and exactly one is started per
\* submitted prompt: a call starts only when the last displayed message is a
\* user message, and from the submission of a prompt until its assistant
\* message is appended is_running is true and no prompt is accepted.
C28_OneCallPerPrompt ==
    /\ [](BlockedWhileAnswering /\ OneCallPerPrompt)
    /\ [][StartsAndAccepts]_vars

\* the parts of C28 that do not count the calls
PromptBlocking ==
    /\ []BlockedWhileAnswering
    /\ [][StartsAndAccepts]_vars

-----------------------------------------------------------------------------
(* The chat UI loop under fair scheduling *)

\* the steps of a script run: everything but what the user does
RunSteps ==
    \/ RagStart
    \/ RagReformulate
    \/ RagEmbed
    \/ RagSearch
    \/ RagAugment
    \/ RagGenerate
    \/ RagUpdateHistory
    \/ RagDisplay
    \/ OrcStart
    \/ OrcReformulate
    \/ OrcEmbed
    \/ OrcGetDocuments
    \/ OrcAugment
    \/ OrcGenerate
    \/ OrcAppendAssistant
    \/ OrcDisplay

\* a script run that has begun goes on until it ends; the user is free never to
\* submit and never to rerun
SpecLive == Spec /\ WF_vars(RunSteps)

\* C29: every submitted prompt is eventually followed by a state in which
\* is_running is false and the input is enabled again, also when the answer
\* call fails; the session never stays blocked with is_running true.
C29_EventuallyUnblocked == is_running ~> ~is_running

-----------------------------------------------------------------------------
(* The references handed to citation rewriting by the presentation layer *)

\* the references attached to the turn immediately before the assistant turn
\* that ends the returned history
ReferencesOfQuestion == GetReferences(updated_history[Len(updated_history) - 1])

\* the assistant answer rewritten with the references of its own question
RewrittenWithOwnReferences ==
    LET answer == Last(updated_history).content
    IN  IF app = "rag"
        THEN ReplaceReferencesRag(answer, ReferencesOfQuestion)
        ELSE ReplaceReferencesOrc(answer, ReferencesOfQuestion)

\* C30: when the presentation layer formats a returned answer, the references
\* it passes to citation rewriting are those attached to the augmented user
\* turn just before the assistant turn: not an absent field of the assistant
\* turn (the formatting does not fail on one) and not those of an earlier
\* question, so the message shown is the answer rewritten with them.
C30_ReferencesOfSameQuestion ==
    [][pc = "returned" /\ pc' # "returned" =>
          /\ updated_history[Len(updated_history) - 1].role = "user"
          /\ exc' # "KeyError"
          /\ RewrittenWithOwnReferences.exc = "none" =>
                /\ pc' = "idle"
                /\ Last(app_messages') =
                      [role |-> "assistant", content |-> RewrittenWithOwnReferences.value]]_vars

====
